---- MODULE Spec2Model ----
(***************************************************************************)
(* A model of the MTA tracker: the station directory                       *)
(* (src/station_mapping.py) and the two feed controllers                   *)
(* (src/GTFS_Controller.py, src/mta_gtfs_controller.py).                   *)
(*                                                                         *)
(* A Python str is a sequence of one-character strings, so that rstrip,    *)
(* f-string formatting and the emptiness tests are computed, not assumed.  *)
(* A dict is a function whose DOMAIN is its key set.  A protobuf message   *)
(* or a JSON object is a function from the names of the fields that are    *)
(* present to their values: HasField(m, f) is f \in DOMAIN m.              *)
(***************************************************************************)
EXTENDS Integers, Sequences, FiniteSets, TLC

VARIABLES
    \* ---- src/station_mapping.py ----
    station_names,  \* StationMapping.station_names
    bpc,            \* position in download_and_process_gtfs
    stations,       \* the rows response.json() returned
    bi,             \* index of the next row of the for loop
    asked,          \* the argument of the last get_station_name call
    base_stop_id,   \* its local base_stop_id
    answer,         \* its return value
    \* ---- the controllers ----
    op,             \* the method or program that is running
    pc,             \* its position
    feed,           \* the FeedMessage it works on (None when there is none)
    ei,             \* index of the next entity (or stop) of the for loop
    out,            \* what it printed so far, one record per print group
    program,        \* the script that was started ("none": a method called directly)
    annotations,    \* how the interpreter evaluates def annotations
    response,       \* what requests.get gave in this run (None before)
    cycles          \* the runs of the script completed before this one

vars == <<station_names, bpc, stations, bi, asked, base_stop_id, answer,
          op, pc, feed, ei, out, program, annotations, response, cycles>>

dirVars == <<station_names, bpc, stations, bi, asked, base_stop_id, answer>>
ctlVars == <<op, pc, feed, ei, out, program, annotations, response, cycles>>

\* ------------------------------------------------------------------ bounds
MaxRows == 2
MaxIdLen == 3
MaxStops == 2
MaxTranslations == 2
MaxEntities == 2
MaxCycles == 2

\* ------------------------------------------------------------- Python bits
\* None, where a message may stand; and the value of the locals of a method
\* that was not called yet
None == [type |-> "NoneType"]
NoCall == <<"no call">>
NA == <<"N", "/", "A">>
EmptyDict == [k \in {} |-> <<>>]

\* d.get(key, default) of a dict, a JSON object or a message field
Get(d, key, default) == IF key \in DOMAIN d THEN d[key] ELSE default

\* d[key] = value
Put(d, key, value) ==
    [k \in DOMAIN d \cup {key} |-> IF k = key THEN value ELSE d[k]]

HasField(m, f) == f \in DOMAIN m

\* All sequences over S of length at most n
RECURSIVE SeqsUpTo(_, _)
SeqsUpTo(S, n) ==
    IF n = 0 THEN {<<>>}
    ELSE LET shorter == SeqsUpTo(S, n - 1)
         IN  shorter \cup {Append(s, x) : s \in {t \in shorter : Len(t) = n - 1}, x \in S}

Front(s) == SubSeq(s, 1, Len(s) - 1)

\* str.rstrip(chars): drops every trailing character that is in chars
RECURSIVE rstrip(_, _)
rstrip(s, chars) ==
    IF Len(s) > 0 /\ s[Len(s)] \in chars THEN rstrip(Front(s), chars) ELSE s

\* --------------------------------------------------- src/station_mapping.py
G22 == <<"G", "2", "2">>
G22S == <<"G", "2", "2", "S">>
CourtSq == <<"C", "o", "u", "r", "t", " ", "S", "q">>
Queens == <<"Q", "u", "e", "e", "n", "s">>

\* The values a field of a row of the open-data table takes here; a field
\* may also be missing from the row.
RowIds == {<<>>, <<"G">>, <<"G", "N">>, G22}
RowNames == {<<>>, CourtSq}
RowBoroughs == {<<>>, Queens}

RowFields(present) ==
    [f \in present |-> CASE f = "gtfs_stop_id" -> RowIds
                         [] f = "stop_name" -> RowNames
                         [] OTHER -> RowBoroughs]

\* the JSON objects: every subset of the three fields, every value of each
Rows ==
    UNION {
        LET dom == RowFields(present)
        IN  {r \in [present -> RowIds \cup RowNames \cup RowBoroughs] :
                \A f \in present : r[f] \in dom[f]}
        : present \in SUBSET {"gtfs_stop_id", "stop_name", "borough"}}

\* f"{station_name} ({borough})" if borough else station_name
FullNameNoBoroughTest(station_name, borough) ==
    station_name \o <<" ", "(">> \o borough \o <<")">>

FullName(station_name, borough) ==
    IF borough # <<>>
    THEN station_name \o <<" ", "(">> \o borough \o <<")">>
    ELSE station_name

\* the body of the for loop of download_and_process_gtfs, on one row
ProcessStation(names, station) ==
    LET stop_id == Get(station, "gtfs_stop_id", <<>>)
        station_name == Get(station, "stop_name", <<>>)
        borough == Get(station, "borough", <<>>)
    IN  IF stop_id # <<>> /\ station_name # <<>>
        THEN Put(names, stop_id, FullName(station_name, borough))
        ELSE names

\* the whole for loop, from the row at index i on
RECURSIVE ProcessStations(_, _, _)
ProcessStations(names, rs, i) ==
    IF i > Len(rs) THEN names
    ELSE ProcessStations(ProcessStation(names, rs[i]), rs, i + 1)

\* requests.get and response.json(): the request raises, answers with
\* another status than 200, or answers 200 with the rows.
Download ==
    /\ bpc = "start"
    /\ \/ /\ bpc' = "error"
          /\ UNCHANGED <<stations, bi>>
       \/ /\ bpc' = "failed_status"
          /\ UNCHANGED <<stations, bi>>
       \/ \E rs \in SeqsUpTo(Rows, MaxRows) :
            /\ stations' = rs
            /\ bi' = 1
            /\ bpc' = "loop"
    /\ UNCHANGED <<station_names, asked, base_stop_id, answer>>
    /\ UNCHANGED ctlVars

\* one iteration of the for loop
NextStation ==
    /\ bpc = "loop"
    /\ bi <= Len(stations)
    /\ station_names' = ProcessStation(station_names, stations[bi])
    /\ bi' = bi + 1
    /\ UNCHANGED <<bpc, stations, asked, base_stop_id, answer>>
    /\ UNCHANGED ctlVars

\* the loop is over: "Successfully loaded ..."
Loaded ==
    /\ bpc = "loop"
    /\ bi > Len(stations)
    /\ bpc' = "loaded"
    /\ UNCHANGED <<station_names, stations, bi, asked, base_stop_id, answer>>
    /\ UNCHANGED ctlVars

\* the key get_station_name looks up
BaseStopId(stop_id) == rstrip(stop_id, {"N", "S"})

\* self.station_names.get(base_stop_id, stop_id)
StationNameOrBase(names, stop_id) ==
    Get(names, BaseStopId(stop_id), BaseStopId(stop_id))

StationName(names, stop_id) == Get(names, BaseStopId(stop_id), stop_id)

\* the stop ids asked for: every string up to MaxIdLen, and the G22S of the
\* docstring
StopIds == SeqsUpTo({"G", "N", "S"}, MaxIdLen) \cup {G22S}

get_station_name ==
    /\ bpc \in {"loaded", "failed_status", "error"}
    /\ \E stop_id \in StopIds :
        /\ asked' = stop_id
        /\ base_stop_id' = BaseStopId(stop_id)
        /\ answer' = StationName(station_names, stop_id)
    /\ UNCHANGED <<station_names, bpc, stations, bi>>
    /\ UNCHANGED ctlVars

CtlIdle ==
    /\ op = "none"
    /\ pc = "idle"
    /\ feed = None
    /\ ei = 0
    /\ out = <<>>
    /\ program = "none"
    /\ annotations = "lazy"
    /\ response = None
    /\ cycles = 0

\* StationMapping(): the directory is empty and nothing was asked
InitBuild ==
    /\ station_names = EmptyDict
    /\ bpc = "start"
    /\ stations = <<>>
    /\ bi = 0
    /\ asked = NoCall
    /\ base_stop_id = NoCall
    /\ answer = NoCall
    /\ CtlIdle

NextBuild == Download \/ NextStation \/ Loaded

SpecBuild == InitBuild /\ [][NextBuild]_vars

\* a directory after download_and_process_gtfs has run on some rows and
\* returned (its locals are gone)
InitResolve ==
    /\ \E rs \in SeqsUpTo(Rows, MaxRows) :
        station_names = ProcessStations(EmptyDict, rs, 1)
    /\ stations = <<>>
    /\ bi = 0
    /\ bpc = "loaded"
    /\ asked = NoCall
    /\ base_stop_id = NoCall
    /\ answer = NoCall
    /\ CtlIdle

NextResolve == get_station_name

SpecResolve == InitResolve /\ [][NextResolve]_vars

\* ------------------------------------------------------------ formatting
Digit(n) == <<"0", "1", "2", "3", "4", "5", "6", "7", "8", "9">>[n + 1]

\* str(n) of an int
RECURSIVE IntStr(_)
IntStr(n) ==
    IF n < 0 THEN <<"-">> \o IntStr(0 - n)
    ELSE IF n < 10 THEN <<Digit(n)>>
    ELSE IntStr(n \div 10) \o <<Digit(n % 10)>>

Pad2(n) == <<Digit(n \div 10), Digit(n % 10)>>

\* a day of the month as ctime prints it: two columns, space padded
DayOfMonth(d) == IF d < 10 THEN <<" ", Digit(d)>> ELSE Pad2(d)

WeekDayName(w) ==
    << <<"S", "u", "n">>, <<"M", "o", "n">>, <<"T", "u", "e">>, <<"W", "e", "d">>,
       <<"T", "h", "u">>, <<"F", "r", "i">>, <<"S", "a", "t">> >>[w + 1]

MonthName(m) ==
    << <<"J", "a", "n">>, <<"F", "e", "b">>, <<"M", "a", "r">>, <<"A", "p", "r">>,
       <<"M", "a", "y">>, <<"J", "u", "n">>, <<"J", "u", "l">>, <<"A", "u", "g">>,
       <<"S", "e", "p">>, <<"O", "c", "t">>, <<"N", "o", "v">>, <<"D", "e", "c">> >>[m]

\* the civil date <<year, month, day>> of a day number counted from
\* 1970-01-01 (proleptic Gregorian calendar)
CivilFromDays(days) ==
    LET z == days + 719468
        era == z \div 146097
        doe == z - era * 146097
        yoe == (doe - doe \div 1460 + doe \div 36524 - doe \div 146096) \div 365
        doy == doe - (365 * yoe + yoe \div 4 - yoe \div 100)
        mp == (5 * doy + 2) \div 153
        d == doy - (153 * mp + 2) \div 5 + 1
        m == IF mp < 10 THEN mp + 3 ELSE mp - 9
        y == yoe + era * 400 + (IF m <= 2 THEN 1 ELSE 0)
    IN  <<y, m, d>>

\* time.ctime(t), "Www Mmm dd hh:mm:ss yyyy", for t >= 0 on a host whose
\* zone is UTC
ctime(t) ==
    LET days == t \div 86400
        secs == t % 86400
        ymd == CivilFromDays(days)
    IN  WeekDayName((days + 4) % 7) \o <<" ">> \o MonthName(ymd[2]) \o <<" ">>
        \o DayOfMonth(ymd[3]) \o <<" ">>
        \o Pad2(secs \div 3600) \o <<":">> \o Pad2((secs % 3600) \div 60)
        \o <<":">> \o Pad2(secs % 60) \o <<" ">> \o IntStr(ymd[1])

\* f"{x:.4f}" of a coordinate given in ten-thousandths of a degree
Fixed4(x) ==
    LET a == IF x < 0 THEN 0 - x ELSE x
        frac == a % 10000
    IN  (IF x < 0 THEN <<"-">> ELSE <<>>) \o IntStr(a \div 10000) \o <<".">>
        \o Pad2(frac \div 100) \o Pad2(frac % 100)

\* -------------------------------------------------------------- the feed
G1 == <<"G", "1">>
EmptyMsg == [f \in {} |-> <<>>]

\* the field f of a message: absent, or present with a value of S
Optional(f, S) == {EmptyMsg} \cup {f :> v : v \in S}

\* StopTimeEvent: arrival and departure
StopTimeEvents == Optional("time", {0, 1700000000})

StopTimeUpdates ==
    {("stop_id" :> G22S) @@ a @@ d :
        a \in Optional("arrival", StopTimeEvents),
        d \in Optional("departure", {EmptyMsg, [time |-> 1700000000]})}

TripDescriptor == [trip_id |-> G1, route_id |-> <<"G">>]

TripUpdates ==
    {[trip |-> TripDescriptor, stop_time_update |-> ss] :
        ss \in SeqsUpTo(StopTimeUpdates, MaxStops)}

Position == [latitude |-> 407447, longitude |-> 0 - 739453]

VehiclePositions ==
    {t @@ s @@ c @@ p :
        t \in Optional("trip", {[trip_id |-> G1]}),
        s \in Optional("stop_id", {G22S}),
        c \in Optional("current_status", {0 - 1, 0, 1, 2, 3}),
        p \in Optional("position", {Position})}

Translations ==
    {[text |-> <<"a">>, language |-> <<"e", "n">>],
     [text |-> <<"a">>, language |-> <<"e", "s">>],
     [text |-> <<"b">>, language |-> <<"e", "n">>]}

TranslatedStrings ==
    {[translation |-> ts] : ts \in SeqsUpTo(Translations, MaxTranslations)}

Alerts ==
    {[header_text |-> h, description_text |-> d] :
        h \in TranslatedStrings, d \in TranslatedStrings}

\* the values of the enum VehicleStopStatus; reading a field that is absent
\* yields the schema's default, which is one of them
VehicleStopStatus == {0, 1, 2}

FeedOf(entities) ==
    [header |-> [timestamp |-> 1700000000], entity |-> entities]

\* -------------------------------------------------- src/GTFS_Controller.py

\* one stop_time_update of _process_trip_update
StopLinesTimeTest(stu) ==
    [kind |-> "stop",
     stop_id |-> Get(stu, "stop_id", <<>>),
     arrival |-> IF Get(Get(stu, "arrival", EmptyMsg), "time", 0) # 0
                 THEN ctime(stu["arrival"]["time"]) ELSE NA,
     departure |-> IF Get(Get(stu, "departure", EmptyMsg), "time", 0) # 0
                   THEN ctime(stu["departure"]["time"]) ELSE NA]

StopLines(stu) ==
    [kind |-> "stop",
     stop_id |-> Get(stu, "stop_id", <<>>),
     arrival |-> IF HasField(stu, "arrival")
                 THEN ctime(Get(stu["arrival"], "time", 0)) ELSE NA,
     departure |-> IF HasField(stu, "departure")
                   THEN ctime(Get(stu["departure"], "time", 0)) ELSE NA]

\* _process_trip_update: the trip's lines, then every stop's in order
process_trip_update(trip_update) ==
    <<[kind |-> "trip",
       trip_id |-> trip_update["trip"]["trip_id"],
       route_id |-> trip_update["trip"]["route_id"]]>>
    \o [k \in 1..Len(trip_update["stop_time_update"]) |->
            StopLines(trip_update["stop_time_update"][k])]

\* _process_vehicle_position: the fields as they are read, status the
\* number read (the coordinates are printed in full; they are given here
\* to four places)
process_vehicle_position(vehicle, status) ==
    <<[kind |-> "vehicle",
       train |-> Get(Get(vehicle, "trip", EmptyMsg), "trip_id", <<>>),
       station |-> Get(vehicle, "stop_id", <<>>),
       status |-> IntStr(status),
       position |-> IF HasField(vehicle, "position")
                    THEN Fixed4(vehicle["position"]["latitude"]) \o <<",">>
                         \o Fixed4(vehicle["position"]["longitude"])
                    ELSE <<>>]>>

\* the printed lines of a list of translations
TextLinesEnglishOnly(label, translated) ==
    LET ts == translated["translation"]
    IN  [k \in 1..Len(SelectSeq(ts, LAMBDA t : t["language"] = <<"e", "n">>)) |->
            <<label, SelectSeq(ts, LAMBDA t : t["language"] = <<"e", "n">>)[k]["text"]>>]

TextLines(label, translated) ==
    [k \in 1..Len(translated["translation"]) |->
        <<label, translated["translation"][k]["text"]>>]

\* _process_alert: the headers, then the descriptions
process_alert(alert) ==
    <<[kind |-> "alert",
       lines |-> TextLines("Header", alert["header_text"])
                 \o TextLines("Description", alert["description_text"])]>>

\* the body of the for loop of process_feed, on one entity
ProcessFeedEntityNoAlert(entity, status) ==
    IF HasField(entity, "trip_update")
    THEN process_trip_update(entity["trip_update"])
    ELSE IF HasField(entity, "vehicle")
    THEN process_vehicle_position(entity["vehicle"], status)
    ELSE <<>>

ProcessFeedEntity(entity, status) ==
    IF HasField(entity, "trip_update")
    THEN process_trip_update(entity["trip_update"])
    ELSE IF HasField(entity, "vehicle")
    THEN process_vehicle_position(entity["vehicle"], status)
    ELSE IF HasField(entity, "alert")
    THEN process_alert(entity["alert"])
    ELSE <<>>

\* ---------------------------------------------- src/mta_gtfs_controller.py

INCOMING_AT == <<"I", "N", "C", "O", "M", "I", "N", "G", "_", "A", "T">>
STOPPED_AT == <<"S", "T", "O", "P", "P", "E", "D", "_", "A", "T">>
IN_TRANSIT_TO == <<"I", "N", "_", "T", "R", "A", "N", "S", "I", "T", "_", "T", "O">>
UNKNOWN == <<"U", "N", "K", "N", "O", "W", "N">>

status_mapping == (0 :> INCOMING_AT) @@ (1 :> STOPPED_AT) @@ (2 :> IN_TRANSIT_TO)

\* the body of the for loop of display_train_positions, on one entity
TrainPosition(entity, status) ==
    IF HasField(entity, "vehicle")
    THEN LET vehicle == entity["vehicle"]
         IN  <<[kind |-> "vehicle",
                train |-> IF HasField(vehicle, "trip")
                          THEN Get(vehicle["trip"], "trip_id", <<>>) ELSE NA,
                station |-> IF HasField(vehicle, "stop_id")
                            THEN vehicle["stop_id"] ELSE NA,
                status |-> Get(status_mapping, status, UNKNOWN),
                position |-> IF HasField(vehicle, "position")
                             THEN Fixed4(vehicle["position"]["latitude"]) \o <<",">>
                                  \o Fixed4(vehicle["position"]["longitude"])
                             ELSE <<>>]>>
    ELSE <<>>

\* the body of the for loop of display_status_alerts, on one entity: the
\* descriptions, then the headers
StatusAlert(entity) ==
    IF HasField(entity, "alert")
    THEN <<[kind |-> "alert",
            lines |-> TextLines("Description", entity["alert"]["description_text"])
                      \o TextLines("Header", entity["alert"]["header_text"])]>>
    ELSE <<>>

\* what vehicle.current_status can read as: the field's value, or the
\* schema's default when the field is absent
CurrentStatus(entity) ==
    IF HasField(entity, "vehicle") /\ HasField(entity["vehicle"], "current_status")
    THEN {entity["vehicle"]["current_status"]}
    ELSE VehicleStopStatus

\* the three methods that walk a feed
Walkers == {"process_feed", "display_train_positions", "display_status_alerts"}

\* what the loop body of method m prints for an entity
EntityLines(m, entity, status) ==
    CASE m = "process_feed" -> ProcessFeedEntity(entity, status)
      [] m = "display_train_positions" -> TrainPosition(entity, status)
      [] OTHER -> StatusAlert(entity)

\* the call of a walker up to its for loop: "No feed data to process" for
\* None, the feed's timestamp otherwise
WalkerCall ==
    /\ op \in Walkers
    /\ pc = "call"
    /\ IF feed = None
       THEN /\ out' = Append(out, [kind |-> "no_feed"])
            /\ pc' = "return"
            /\ ei' = ei
       ELSE /\ out' = Append(out, [kind |-> "timestamp",
                                   time |-> ctime(feed["header"]["timestamp"])])
            /\ ei' = 1
            /\ pc' = IF Len(feed["entity"]) = 0 THEN "return" ELSE "loop"
    /\ UNCHANGED <<op, feed, program, annotations, response, cycles>>
    /\ UNCHANGED dirVars

\* one iteration of the walker's for loop
WalkerEntity ==
    /\ op \in Walkers
    /\ pc = "loop"
    /\ \E status \in CurrentStatus(feed["entity"][ei]) :
          out' = out \o EntityLines(op, feed["entity"][ei], status)
    /\ ei' = ei + 1
    /\ pc' = IF ei = Len(feed["entity"]) THEN "return" ELSE "loop"
    /\ UNCHANGED <<op, feed, program, annotations, response, cycles>>
    /\ UNCHANGED dirVars

DirIdle ==
    /\ station_names = EmptyDict
    /\ bpc = "start"
    /\ stations = <<>>
    /\ bi = 0
    /\ asked = NoCall
    /\ base_stop_id = NoCall
    /\ answer = NoCall

\* a walker called on feed f
Called(m, f) ==
    /\ op = m
    /\ pc = "call"
    /\ feed = f
    /\ ei = 0
    /\ out = <<>>
    /\ program = "none"
    /\ annotations = "lazy"
    /\ response = None
    /\ cycles = 0

NextWalk == WalkerCall \/ WalkerEntity

\* process_feed on a feed of one trip update
InitTrip ==
    /\ DirIdle
    /\ \E tu \in TripUpdates :
          Called("process_feed", FeedOf(<<[trip_update |-> tu]>>))

SpecTrip == InitTrip /\ [][NextWalk]_vars

\* process_feed or display_status_alerts on a feed of one alert
InitAlert ==
    /\ DirIdle
    /\ \E m \in {"process_feed", "display_status_alerts"} : \E a \in Alerts :
          Called(m, FeedOf(<<[alert |-> a]>>))

SpecAlert == InitAlert /\ [][NextWalk]_vars

\* the directory of the G22 scenario
G22Directory ==
    ProcessStations(EmptyDict,
        <<[gtfs_stop_id |-> G22, stop_name |-> CourtSq, borough |-> Queens]>>, 1)

\* process_feed or display_train_positions on a feed of one vehicle, with
\* the directory loaded
InitVehicle ==
    /\ station_names \in {EmptyDict, G22Directory}
    /\ bpc = "loaded"
    /\ stations = <<>>
    /\ bi = 0
    /\ asked = NoCall
    /\ base_stop_id = NoCall
    /\ answer = NoCall
    /\ \E m \in {"process_feed", "display_train_positions"} :
       \E v \in VehiclePositions :
          Called(m, FeedOf(<<[vehicle |-> v]>>))

SpecVehicle == InitVehicle /\ [][NextWalk]_vars

\* the entities of the feeds walked whole: every combination of a trip
\* update (of no, one or two stops), a vehicle and an alert
FeedTripUpdates ==
    {[trip |-> TripDescriptor, stop_time_update |-> ss] :
        ss \in {<<>>,
                <<[stop_id |-> G22S, arrival |-> [time |-> 1700000000]]>>,
                <<[stop_id |-> G22S, arrival |-> [time |-> 1700000000]],
                  [stop_id |-> <<"G", "N">>, departure |-> [time |-> 0]]>>}}

FeedVehicle == [trip |-> [trip_id |-> G1], stop_id |-> G22S, current_status |-> 1]

FeedAlert ==
    [header_text |-> [translation |-> <<[text |-> <<"a">>, language |-> <<"e", "n">>],
                                         [text |-> <<"b">>, language |-> <<"e", "n">>]>>],
     description_text |-> [translation |-> <<>>]]

FeedEntities ==
    {t @@ v @@ a :
        t \in Optional("trip_update", FeedTripUpdates),
        v \in Optional("vehicle", {FeedVehicle}),
        a \in Optional("alert", {FeedAlert})}

\* a walker called on None or on a feed of up to MaxEntities entities
InitFeed ==
    /\ DirIdle
    /\ \E m \in Walkers :
          \/ Called(m, None)
          \/ \E es \in SeqsUpTo(FeedEntities, MaxEntities) : Called(m, FeedOf(es))

SpecFeed == InitFeed /\ [][NextWalk]_vars

\* ------------------------------------------------------------ the scripts
Scripts == {"GTFS_Controller", "mta_gtfs_controller"}

PollEntities ==
    {[trip_update |-> tu] : tu \in FeedTripUpdates}
    \cup {[vehicle |-> FeedVehicle], [alert |-> FeedAlert]}

\* what requests.get gives: it raises, or answers with a status and, for
\* 200, a payload that ParseFromString rejects or decodes to a feed
Responses ==
    {[raised |-> "RequestException"], [status_code |-> 404],
     [status_code |-> 200, content |-> [malformed |-> TRUE]]}
    \cup {[status_code |-> 200, content |-> FeedOf(es)] :
            es \in SeqsUpTo(PollEntities, MaxEntities)}

WellFormed(r) ==
    /\ "status_code" \in DOMAIN r
    /\ r["status_code"] = 200
    /\ "entity" \in DOMAIN r["content"]

\* fetch_subway_status_data of mta_gtfs_controller.py: the decoded feed for
\* a 200 whose payload parses, None otherwise
fetch_subway_status_data(r) == IF WellFormed(r) THEN r["content"] ELSE None

\* fetch_realtime_data of GTFS_Controller.py: the name gtfs_realtime_pb2 is
\* not bound in that module, so gtfs_realtime_pb2.FeedMessage() raises
\* NameError, which the except Exception clause turns into None
fetch_realtime_data(r) ==
    IF "raised" \in DOMAIN r THEN None
    ELSE IF r["status_code"] = 200 THEN None
    ELSE None

\* the module is loaded: its def statements are executed.  The annotation
\* of fetch_realtime_data names gtfs_realtime_pb2; an interpreter that
\* evaluates annotations at the def raises NameError there and the script
\* ends with a traceback.
LoadModule ==
    /\ program \in Scripts
    /\ pc = "import"
    /\ pc' = IF program = "GTFS_Controller" /\ annotations = "eager"
             THEN "NameError" ELSE "main"
    /\ UNCHANGED <<op, feed, ei, out, program, annotations, response, cycles>>
    /\ UNCHANGED dirVars

\* main: the controller is made and the feed is fetched
MainFetch ==
    /\ program \in Scripts
    /\ pc = "main"
    /\ \E r \in Responses :
        /\ response' = r
        /\ feed' = IF program = "GTFS_Controller"
                   THEN fetch_realtime_data(r)
                   ELSE fetch_subway_status_data(r)
    /\ pc' = "fetched"
    /\ UNCHANGED <<op, ei, out, program, annotations, cycles>>
    /\ UNCHANGED dirVars

\* main: if feed: render it, else: "Failed to fetch ..."
MainRender ==
    /\ program \in Scripts
    /\ pc = "fetched"
    /\ IF feed # None
       THEN /\ op' = IF program = "GTFS_Controller"
                     THEN "process_feed" ELSE "display_status_alerts"
            /\ pc' = "call"
            /\ out' = out
       ELSE /\ out' = Append(out, [kind |-> "failed"])
            /\ pc' = "exit"
            /\ op' = op
    /\ UNCHANGED <<feed, ei, program, annotations, response, cycles>>
    /\ UNCHANGED dirVars

\* main returns after the walker did
MainReturn ==
    /\ program \in Scripts
    /\ pc = "return"
    /\ pc' = "exit"
    /\ UNCHANGED <<op, feed, ei, out, program, annotations, response, cycles>>
    /\ UNCHANGED dirVars

\* the script is started again for the next poll: nothing is kept
NextCycle ==
    /\ program \in Scripts
    /\ pc = "exit"
    /\ cycles < MaxCycles
    /\ cycles' = cycles + 1
    /\ pc' = "import"
    /\ op' = "none"
    /\ feed' = None
    /\ ei' = 0
    /\ out' = <<>>
    /\ response' = None
    /\ UNCHANGED <<program, annotations>>
    /\ UNCHANGED dirVars

InitPoll ==
    /\ DirIdle
    /\ program \in Scripts
    /\ annotations \in {"eager", "lazy"}
    /\ op = "none"
    /\ pc = "import"
    /\ feed = None
    /\ ei = 0
    /\ out = <<>>
    /\ response = None
    /\ cycles = 0

NextPoll ==
    LoadModule \/ MainFetch \/ MainRender \/ WalkerCall \/ WalkerEntity
    \/ MainReturn \/ NextCycle

SpecPoll == InitPoll /\ [][NextPoll]_vars

\* ------------------------------------------------- the directory's claims

\* a stop id without its one direction suffix character, if it has one
StripSuffix(stop_id) ==
    IF Len(stop_id) > 0 /\ stop_id[Len(stop_id)] \in {"N", "S"}
    THEN Front(stop_id)
    ELSE stop_id

\* C1: for every key k of the directory and suffix d in {N, S},
\* get_station_name(k + d) is the directory's name for k; and a stop id
\* whose stripped key is not in the directory comes back unchanged.
C1_SuffixedKeyResolves ==
    asked # NoCall =>
        /\ \A k \in DOMAIN station_names : \A d \in {"N", "S"} :
              asked = Append(k, d) => answer = station_names[k]
        /\ StripSuffix(asked) \notin DOMAIN station_names => answer = asked

\* C2 as stated: get_station_name returns a non-empty string for any string,
\* the empty string included.
C2_AlwaysNonEmpty == asked # NoCall => answer # <<>>

\* C2 as amended: get_station_name returns for every string; the result is
\* empty exactly when the stop id asked for is the empty string.
C2_EmptyOnlyForEmpty == asked # NoCall => (answer = <<>> <=> asked = <<>>)

C2_Witness == asked = <<>> /\ answer = <<>>

\* row r carries stop id key together with a non-empty stop_name
Carries(r, key) ==
    /\ "gtfs_stop_id" \in DOMAIN r
    /\ r["gtfs_stop_id"] = key
    /\ "stop_name" \in DOMAIN r
    /\ r["stop_name"] # <<>>

\* "stop_name (borough)" when row r has a borough, stop_name alone otherwise
DisplayName(r) ==
    IF "borough" \in DOMAIN r /\ r["borough"] # <<>>
    THEN r["stop_name"] \o <<" ", "(">> \o r["borough"] \o <<")">>
    ELSE r["stop_name"]

\* C4: once the rows are processed, the directory has an entry for a key
\* exactly when some row carries that stop id with a non-empty stop_name
\* (an empty stop id counts as missing); the entry is the display name of
\* the last such row; rows missing a field add nothing and stop nothing.
C4_DirectoryIsTheRows ==
    bpc = "loaded" =>
        /\ <<>> \notin DOMAIN station_names
        /\ \A key \in (RowIds \cup DOMAIN station_names) \ {<<>>} :
              /\ key \in DOMAIN station_names
                    <=> \E i \in 1..Len(stations) : Carries(stations[i], key)
              /\ key \in DOMAIN station_names =>
                    \E i \in 1..Len(stations) :
                        /\ Carries(stations[i], key)
                        /\ \A j \in (i + 1)..Len(stations) : ~Carries(stations[j], key)
                        /\ station_names[key] = DisplayName(stations[i])

\* a row without a stop_name, then a row that carries G22 with a borough
C4_Witness ==
    /\ bpc = "loaded"
    /\ Len(stations) >= 2
    /\ "stop_name" \notin DOMAIN stations[1]
    /\ Carries(stations[2], G22)
    /\ G22 \in DOMAIN station_names
    /\ station_names[G22] = CourtSq \o <<" ", "(">> \o Queens \o <<")">>

\* C8: the key looked up is the stop id without its last character when
\* that character is N or S, and the stop id itself otherwise.
C8_OnlyTheSuffixIsStripped ==
    asked # NoCall => base_stop_id = StripSuffix(asked)

\* ------------------------------------------------ the controllers' claims

\* the only entity of a feed of one entity
TheEntity == feed["entity"][1]

\* the record printed for it, after the timestamp
TheRecord == out[2]

\* C3: a vehicle's status label is INCOMING_AT for 0, STOPPED_AT for 1,
\* IN_TRANSIT_TO for 2 and UNKNOWN for anything else, an absent
\* current_status included.
C3_StatusLabel ==
    (op = "display_train_positions" /\ pc = "return") =>
        LET v == TheEntity["vehicle"]
        IN  TheRecord["status"] =
                IF ~HasField(v, "current_status") THEN UNKNOWN
                ELSE CASE v["current_status"] = 0 -> INCOMING_AT
                       [] v["current_status"] = 1 -> STOPPED_AT
                       [] v["current_status"] = 2 -> IN_TRANSIT_TO
                       [] OTHER -> UNKNOWN

\* C7: the record display_train_positions prints for a vehicle shows as
\* station the stop id resolved through the directory (the directory's name
\* for the stop id without its direction suffix, the stop id itself when
\* there is none), "N/A" as train when the trip is absent, and STOPPED_AT
\* for status 1.
C7_VehicleRecordResolved ==
    (op = "display_train_positions" /\ pc = "return") =>
        LET v == TheEntity["vehicle"]
        IN  /\ HasField(v, "stop_id") =>
                TheRecord["station"] =
                    IF StripSuffix(v["stop_id"]) \in DOMAIN station_names
                    THEN station_names[StripSuffix(v["stop_id"])]
                    ELSE v["stop_id"]
            /\ ~HasField(v, "trip") => TheRecord["train"] = NA
            /\ (HasField(v, "current_status") /\ v["current_status"] = 1) =>
                TheRecord["status"] = STOPPED_AT

\* s has the shape of a formatted timestamp, "Www Mmm dd hh:mm:ss yyyy"
IsTimestamp(s) ==
    /\ Len(s) = 24
    /\ s[4] = " " /\ s[8] = " " /\ s[11] = " " /\ s[20] = " "
    /\ s[14] = ":" /\ s[17] = ":"

\* C9: every stop_time_update of a trip update gets its record, in order;
\* its arrival is a formatted timestamp exactly when the arrival field is
\* present and "N/A" exactly when it is absent, and so, independently, is
\* its departure.
C9_TimesOrNA ==
    (op = "process_feed" /\ pc = "return"
        /\ Len(feed["entity"]) = 1 /\ DOMAIN TheEntity = {"trip_update"}) =>
        LET stops == TheEntity["trip_update"]["stop_time_update"]
        IN  /\ Len(out) = 2 + Len(stops)
            /\ \A k \in 1..Len(stops) :
                LET r == out[2 + k]
                IN  /\ r["kind"] = "stop"
                    /\ r["stop_id"] = stops[k]["stop_id"]
                    /\ IsTimestamp(r["arrival"]) <=> HasField(stops[k], "arrival")
                    /\ r["arrival"] = NA <=> ~HasField(stops[k], "arrival")
                    /\ IsTimestamp(r["departure"]) <=> HasField(stops[k], "departure")
                    /\ r["departure"] = NA <=> ~HasField(stops[k], "departure")

\* a stop without arrival and with a departure, before a stop with an
\* arrival and without departure
C9_Witness ==
    /\ op = "process_feed" /\ pc = "return"
    /\ Len(feed["entity"]) = 1 /\ DOMAIN TheEntity = {"trip_update"}
    /\ Len(TheEntity["trip_update"]["stop_time_update"]) = 2
    /\ DOMAIN TheEntity["trip_update"]["stop_time_update"][1] = {"stop_id", "departure"}
    /\ DOMAIN TheEntity["trip_update"]["stop_time_update"][2] = {"stop_id", "arrival"}
    /\ Len(out) = 4
    /\ out[3]["arrival"] = NA /\ IsTimestamp(out[3]["departure"])
    /\ IsTimestamp(out[4]["arrival"]) /\ out[4]["departure"] = NA

\* the texts of the printed lines that carry the label, in print order
Labelled(lines, label) ==
    LET sel == SelectSeq(lines, LAMBDA l : l[1] = label)
    IN  [k \in 1..Len(sel) |-> sel[k][2]]

\* the texts of the translations of a translated string, in feed order
Texts(translated) ==
    [k \in 1..Len(translated["translation"]) |-> translated["translation"][k]["text"]]

\* C10: the record of an alert exposes every header translation and every
\* description translation, each list in feed order, none dropped,
\* de-duplicated or filtered by language.
C10_AllTranslations ==
    (pc = "return" /\ Len(feed["entity"]) = 1 /\ DOMAIN TheEntity = {"alert"}) =>
        /\ Len(out) = 2
        /\ TheRecord["kind"] = "alert"
        /\ Labelled(TheRecord["lines"], "Header") = Texts(TheEntity["alert"]["header_text"])
        /\ Labelled(TheRecord["lines"], "Description")
              = Texts(TheEntity["alert"]["description_text"])
        /\ Len(TheRecord["lines"])
              = Len(TheEntity["alert"]["header_text"]["translation"])
                + Len(TheEntity["alert"]["description_text"]["translation"])

\* two header translations of the same text in two languages, no description
C10_Witness ==
    /\ pc = "return" /\ Len(feed["entity"]) = 1 /\ DOMAIN TheEntity = {"alert"}
    /\ Texts(TheEntity["alert"]["header_text"]) = << <<"a">>, <<"a">> >>
    /\ Texts(TheEntity["alert"]["description_text"]) = <<>>
    /\ Labelled(TheRecord["lines"], "Header") = << <<"a">>, <<"a">> >>
    /\ Labelled(TheRecord["lines"], "Description") = <<>>

\* what identifies a printed record: its kind and the stop, train or
\* first text it shows
RecordKey(r) ==
    CASE r["kind"] = "stop" -> <<"stop", r["stop_id"]>>
      [] r["kind"] = "vehicle" -> <<"vehicle", r["train"]>>
      [] r["kind"] = "alert" -> <<"alert", Labelled(r["lines"], "Header")>>
      [] OTHER -> <<r["kind"], <<>>>>

\* the keys of the records printed for stops, vehicles and alerts, in order
PrintedKeys ==
    LET recs == SelectSeq(out, LAMBDA r : r["kind"] \in {"stop", "vehicle", "alert"})
    IN  [k \in 1..Len(recs) |-> RecordKey(recs[k])]

\* the keys of what an entity holds: its trip update's stops, its vehicle,
\* its alert
HeldKeys(entity, kinds) ==
    (IF HasField(entity, "trip_update") /\ "stop" \in kinds
     THEN [k \in 1..Len(entity["trip_update"]["stop_time_update"]) |->
              <<"stop", entity["trip_update"]["stop_time_update"][k]["stop_id"]>>]
     ELSE <<>>)
    \o (IF HasField(entity, "vehicle") /\ "vehicle" \in kinds
        THEN << <<"vehicle", entity["vehicle"]["trip"]["trip_id"]>> >> ELSE <<>>)
    \o (IF HasField(entity, "alert") /\ "alert" \in kinds
        THEN << <<"alert", Texts(entity["alert"]["header_text"])>> >> ELSE <<>>)

\* the keys of what the first n entities of the feed hold
RECURSIVE FeedKeys(_, _)
FeedKeys(n, kinds) ==
    IF n = 0 THEN <<>>
    ELSE FeedKeys(n - 1, kinds) \o HeldKeys(feed["entity"][n], kinds)

\* the entities the walker has gone through
Walked == IF pc = "return" THEN Len(feed["entity"]) ELSE ei - 1

OneVariantEach ==
    \A k \in 1..Len(feed["entity"]) :
        Cardinality(DOMAIN feed["entity"][k]) <= 1

C6_FailedCycleSkippedNextRendered ==
    (program \in Scripts /\ pc = "exit") =>
        IF WellFormed(response)
        THEN /\ Len(out) >= 1
             /\ out[1]["kind"] = "timestamp"
        ELSE /\ feed = None
             /\ out = <<[kind |-> "failed"]>>

====
